---------------------------- MODULE Spec2Model ----------------------------
(***************************************************************************)
(* A model of the early boot memory subsystem of orsetii/aos:              *)
(*   - the firmware table registry (EFI_SYSTEM_TABLE, an AtomicPtr),       *)
(*   - the boot-exit protocol exit_boot_services of src/efi.rs,            *)
(*   - the memory-type classifier,                                         *)
(*   - the Page / PageRange / PageRangeInclusive iterators,                *)
(*   - the Page operations and align_up / align_down,                      *)
(*   - the console helper output_string.                                   *)
(* 64-bit quantities whose width matters are kept at their full width as   *)
(* four 16-bit limbs, least significant first.                             *)
(***************************************************************************)
EXTENDS Integers, Sequences, FiniteSets, TLC

VARIABLES
    EFI_SYSTEM_TABLE,   \* the AtomicPtr: NULL or a table pointer
    core,               \* per execution unit: its register_system_table call
    last,               \* the last completed operation on the registry
    boot,               \* the boot core's exit_boot_services activation
    fwLog,              \* firmware functions invoked by the current activation
    cls,                \* one application of the memory-type classifier
    rng,                \* one PageRange / PageRangeInclusive being iterated
    pg,                 \* one Page operation: its arguments and its result
    al,                 \* one align_up / align_down call
    con                 \* one output_string call, code unit by code unit

vars == <<EFI_SYSTEM_TABLE, core, last, boot, fwLog, cls, rng, pg, al, con>>

---------------------------------------------------------------------------
(* Bounds of the model.                                                    *)

NCores == 3          \* execution units that may call register concurrently
MaxDescs == 3        \* descriptors in a firmware memory map
MaxPageIdx == 3      \* page numbers 0..MaxPageIdx from either end of the space
MaxYield == 6        \* pages taken from one iterator before the model stops
MaxPages == 6        \* page counts 0..MaxPages given to the classifier
MaxTypeCode == 17    \* low halves 0..MaxTypeCode of the raw type codes
MaxOps == 2          \* Page operations applied one after the other
MaxCount == 2        \* page counts 0..MaxCount given to Page + n, Page - n
MaxStrLen == 33      \* characters in a string given to output_string
MaxSizeUnits == 16   \* mmap_size 0, 8, ..., 8 * MaxSizeUnits reported by firmware

(* Program constants.                                                      *)

NULL == 0                 \* core::ptr::null_mut()
EFI_PAGE_SIZE == 4096
MMAP_CAPACITY == 16384    \* [0u8; 16 * 1024]
DESCRIPTOR_BYTES == 40    \* size_of::<EfiMemoryDescriptor>(), repr(C)
NUM_MEMORY_TYPES == 15    \* variants of EfiMemoryType, codes 0..14
TMP_LEN == 32             \* [0u16; 32] of output_string
LIMB == 2^16              \* a u64 is four 16-bit limbs

(* Opaque tokens: only compared for equality by the code.                  *)

Cores == 1..NCores
Ptrs == {1, 2}            \* non-null addresses of firmware system tables
Handles == {11, 12}       \* image handles
MapKeys == {21, 22}       \* map keys firmware hands out

---------------------------------------------------------------------------
(* u64 arithmetic on limbs <<l0, l1, l2, l3>>, value = sum l_i * 2^(16 i). *)

U64Zero == <<0, 0, 0, 0>>
U64Max == <<LIMB - 1, LIMB - 1, LIMB - 1, LIMB - 1>>

U64OfNat(n) ==
    <<n % LIMB, (n \div LIMB) % LIMB, 0, 0>>

\* a < b on u64
U64Less(a, b) ==
    \E i \in 1..4 : a[i] < b[i] /\ \A j \in (i + 1)..4 : a[j] = b[j]

U64Leq(a, b) == a = b \/ U64Less(a, b)

\* the full-width sum: [sum |-> (a + b) mod 2^64, carry |-> overflowed]
U64AddC(a, b) ==
    LET s1 == a[1] + b[1]
        s2 == a[2] + b[2] + (s1 \div LIMB)
        s3 == a[3] + b[3] + (s2 \div LIMB)
        s4 == a[4] + b[4] + (s3 \div LIMB)
    IN  [sum |-> <<s1 % LIMB, s2 % LIMB, s3 % LIMB, s4 % LIMB>>,
         carry |-> s4 >= LIMB]

\* the full-width product with a small factor n (n < 2^15)
U64MulC(a, n) ==
    LET p1 == a[1] * n
        p2 == a[2] * n + (p1 \div LIMB)
        p3 == a[3] * n + (p2 \div LIMB)
        p4 == a[4] * n + (p3 \div LIMB)
    IN  [prod |-> <<p1 % LIMB, p2 % LIMB, p3 % LIMB, p4 % LIMB>>,
         carry |-> p4 >= LIMB]

\* 2^64 - a  (a # 0)
U64Neg(a) == U64AddC(<<LIMB - 1 - a[1], LIMB - 1 - a[2],
                       LIMB - 1 - a[3], LIMB - 1 - a[4]>>, <<1, 0, 0, 0>>).sum

(* Bitwise operations on one 16-bit limb.                                  *)

RECURSIVE BitAnd(_, _)
BitAnd(x, y) ==
    IF x = 0 \/ y = 0 THEN 0
    ELSE (x % 2) * (y % 2) + 2 * BitAnd(x \div 2, y \div 2)

U64And(a, b) == [i \in 1..4 |-> BitAnd(a[i], b[i])]
U64Not(a) == [i \in 1..4 |-> LIMB - 1 - a[i]]

\* a - 1 with wraparound
U64Dec(a) == U64AddC(a, U64Max).sum

\* u64::is_power_of_two
IsPowerOfTwo(a) ==
    a # U64Zero /\ U64And(a, U64Dec(a)) = U64Zero

---------------------------------------------------------------------------
(* The memory-type classifier (efi.rs and efi/structures.rs carry the same *)
(* enum, conversion and predicate).                                        *)

EfiMemoryType ==
    {"Reserved", "LoaderCode", "LoaderData", "BootServicesCode",
     "BootServicesData", "RuntimeServicesCode", "RuntimeServicesData",
     "Conventional", "Unusable", "AcpiReclaim", "AcpiNonVolatile", "Mmio",
     "MmioPortSpace", "PalCode", "PersistentMemory"}

\* the discriminant the enum declaration gives each variant
Discriminant(t) ==
    CASE t = "Reserved" -> 0
      [] t = "LoaderCode" -> 1
      [] t = "LoaderData" -> 2
      [] t = "BootServicesCode" -> 3
      [] t = "BootServicesData" -> 4
      [] t = "RuntimeServicesCode" -> 5
      [] t = "RuntimeServicesData" -> 6
      [] t = "Conventional" -> 7
      [] t = "Unusable" -> 8
      [] t = "AcpiReclaim" -> 9
      [] t = "AcpiNonVolatile" -> 10
      [] t = "Mmio" -> 11
      [] t = "MmioPortSpace" -> 12
      [] t = "PalCode" -> 13
      [] t = "PersistentMemory" -> 14

\* a classifier that also counts loader data as reusable
AvailableWithLoaderData(t) ==
    t \in {"BootServicesCode", "BootServicesData", "Conventional",
           "PersistentMemory", "LoaderData"}

\* EfiMemoryType::available_post_exit_boot_services / available_post_brexit
AvailablePostExitBootServices(t) ==
    t \in {"BootServicesCode", "BootServicesData", "Conventional",
           "PersistentMemory"}

\* impl From<u32> for EfiMemoryType; "panic" is the `_ => panic!` arm
EfiMemoryTypeFrom(v) ==
    CASE v = 0 -> "Reserved"
      [] v = 1 -> "LoaderCode"
      [] v = 2 -> "LoaderCode"
      [] v = 3 -> "BootServicesCode"
      [] v = 4 -> "BootServicesData"
      [] v = 5 -> "RuntimeServicesCode"
      [] v = 6 -> "RuntimeServicesData"
      [] v = 7 -> "Conventional"
      [] v = 8 -> "Unusable"
      [] v = 9 -> "AcpiReclaim"
      [] v = 10 -> "AcpiNonVolatile"
      [] v = 11 -> "Mmio"
      [] v = 12 -> "MmioPortSpace"
      [] v = 13 -> "PalCode"
      [] v = 14 -> "PersistentMemory"
      [] OTHER -> "panic"

---------------------------------------------------------------------------
(* The descriptor buffer.  mmap is the sequence of bytes firmware wrote;   *)
(* the rest of the 16 KiB array keeps its initial zeroes.                  *)

\* a repr(C) EfiMemoryDescriptor as firmware lays it out, little-endian:
\* typ at 0..3, padding 4..7, physical_start 8..15, virtual_start 16..23,
\* number_of_pages 24..31, attribute 32..39
LeBytes(n, k) == [i \in 1..k |-> IF i = 1 THEN n % 256
                                 ELSE IF i = 2 THEN (n \div 256) % 256
                                 ELSE IF i = 3 THEN (n \div 65536) % 256
                                 ELSE 0]

EncodeDescriptor(d) ==
    LeBytes(d.typ, 4) \o LeBytes(0, 4) \o LeBytes(0, 8)
        \o LeBytes(0, 8) \o LeBytes(d.number_of_pages, 8) \o LeBytes(0, 8)

\* the array firmware writes: one record every `stride` bytes, the bytes
\* between records filled with 0xFF
RECURSIVE EncodeMap(_, _)
EncodeMap(descs, stride) ==
    IF descs = <<>> THEN <<>>
    ELSE EncodeDescriptor(Head(descs))
            \o [i \in 1..(stride - DESCRIPTOR_BYTES) |-> 255]
            \o EncodeMap(Tail(descs), stride)

\* mmap[i] of the 16 KiB array
MmapByte(mmap, i) == IF i < Len(mmap) THEN mmap[i + 1] ELSE 0

\* two bytes at i as one 16-bit limb
MmapLimb(mmap, i) == MmapByte(mmap, i) + 256 * MmapByte(mmap, i + 1)

\* core::ptr::read_unaligned(mmap[offset..].as_ptr() as *const
\* EfiMemoryDescriptor): the fields the walk uses.  typ is a u32 (two
\* limbs), number_of_pages a u64 (four limbs).
ReadDescriptor(mmap, offset) ==
    [typ |-> <<MmapLimb(mmap, offset), MmapLimb(mmap, offset + 2)>>,
     number_of_pages |-> <<MmapLimb(mmap, offset + 24),
                           MmapLimb(mmap, offset + 26),
                           MmapLimb(mmap, offset + 28),
                           MmapLimb(mmap, offset + 30)>>]

\* entry.typ.into()
TypInto(typ) == IF typ[2] # 0 THEN "panic" ELSE EfiMemoryTypeFrom(typ[1])

\* a walker that assumes the natural record size instead of the stride
StepFixed(desc_size) == DESCRIPTOR_BYTES

\* the step of (0..mmap_size).step_by(desc_size)
Step(desc_size) == desc_size

\* The loop of exit_boot_services from offset `off` on, with free_memory
\* = acc so far and `reads` the offsets read so far.  Results:
\*   "ok"         the loop ran to its end
\*   "panic"      an unsupported memory type was met
\*   "oob"        a record was read past the end of the array
RECURSIVE WalkFrom(_, _, _, _, _, _)
WalkFrom(mmap, mmap_size, step, off, acc, reads) ==
    IF off >= mmap_size
    THEN [status |-> "ok", free_memory |-> acc, reads |-> reads]
    ELSE IF off + DESCRIPTOR_BYTES > MMAP_CAPACITY
    THEN [status |-> "oob", free_memory |-> acc,
          reads |-> Append(reads, off)]
    ELSE LET entry == ReadDescriptor(mmap, off)
             type == TypInto(entry.typ)
             bytes == U64MulC(entry.number_of_pages, EFI_PAGE_SIZE).prod
         IN  IF type = "panic"
             THEN [status |-> "panic", free_memory |-> acc,
                   reads |-> Append(reads, off)]
             ELSE WalkFrom(mmap, mmap_size, step, off + step,
                           IF AvailablePostExitBootServices(type)
                           THEN U64AddC(acc, bytes).sum ELSE acc,
                           Append(reads, off))

\* for offset in (0..mmap_size).step_by(desc_size) { ... }
\* step_by(0) panics before the first iteration
Walk(mmap, mmap_size, desc_size) ==
    IF Step(desc_size) = 0
    THEN [status |-> "panic", free_memory |-> U64Zero, reads |-> <<>>]
    ELSE WalkFrom(mmap, mmap_size, Step(desc_size), 0, U64Zero, <<>>)

---------------------------------------------------------------------------
(* The firmware table registry.                                            *)

\* a plain store where the compare-exchange should be
StoreUnconditionally(cur, expected, new) == [ok |-> TRUE, val |-> new]

\* AtomicPtr::compare_exchange(expected, new, SeqCst, SeqCst): whether it
\* succeeded and the value the cell holds afterwards
CompareExchange(cur, expected, new) ==
    IF cur = expected THEN [ok |-> TRUE, val |-> new]
    ELSE [ok |-> FALSE, val |-> cur]

\* a register that reports success whatever the compare-exchange did
RegisterAlwaysOk(api, ok) == "Ok"

\* what the caller of register_system_table gets: structures.rs maps the
\* failure to Err(CouldntRegisterSystemTable), efi.rs unwraps it
RegisterResult(api, ok) ==
    IF ok THEN "Ok"
    ELSE IF api = "structures" THEN "CouldntRegisterSystemTable"
    ELSE "panic"

\* a load that hands out the pointer without the null test
LoadUnchecked(st) == [res |-> "Ok", ref |-> st]

\* load_system_table's result for the loaded pointer st
LoadResult(st) ==
    IF st = NULL THEN [res |-> "CouldntAccessSystemTable", ref |-> NULL]
    ELSE [res |-> "Ok", ref |-> st]

\* `last`: the operation, the one before it, its argument, the registry
\* value it found, its result, the table pointer it dereferenced (NULL:
\* none) and how many firmware functions it invoked through that pointer
NoOp == [op |-> "none", prev |-> "none", arg |-> NULL, before |-> NULL,
         res |-> "none", deref |-> NULL, calls |-> 0, status |-> U64Zero]

Done(op, arg, before, res, deref, calls) ==
    [op |-> op, prev |-> last.op, arg |-> arg, before |-> before,
     res |-> res, deref |-> deref, calls |-> calls, status |-> U64Zero]

NoOut == [kind |-> "none", why |-> "none", status |-> U64Zero,
          total |-> U64Zero]

IdleCore == [pc |-> "idle", api |-> "none", arg |-> NULL, res |-> "none"]

IdleBoot ==
    [pc |-> "idle", st |-> NULL, handle |-> NULL, ret |-> U64Zero,
     mmap |-> <<>>, mmap_size |-> 0, map_key |-> 0, desc_size |-> 0,
     free_memory |-> U64Zero, res |-> U64Zero, out |-> NoOut,
     held |-> NULL, descs |-> <<>>, reads |-> <<>>]

\* the core that runs the boot sequence; the others can only race to
\* register
BootCores == {1}

\* the boot core is between operations
BootIdle == boot.pc = "idle" /\ \A c \in BootCores : core[c].pc = "idle"

\* a core enters register_system_table(p), through either crate
RegisterCall(c, api, p) ==
    /\ core[c].pc = "idle"
    /\ core' = [core EXCEPT ![c] = [pc |-> "cas", api |-> api, arg |-> p,
                                    res |-> "none"]]
    /\ UNCHANGED <<EFI_SYSTEM_TABLE, last, boot, fwLog, cls, rng, pg, al, con>>

\* the compare_exchange of register_system_table and what it returns
RegisterCas(c) ==
    /\ core[c].pc = "cas"
    /\ LET r == CompareExchange(EFI_SYSTEM_TABLE, NULL, core[c].arg)
           res == RegisterResult(core[c].api, r.ok)
       IN  /\ EFI_SYSTEM_TABLE' = r.val
           /\ core' = [core EXCEPT ![c].pc = IF res = "panic" THEN "panic"
                                             ELSE "ret",
                                   ![c].res = res]
           /\ last' = Done("register", core[c].arg, EFI_SYSTEM_TABLE, res,
                           NULL, 0)
    /\ UNCHANGED <<boot, fwLog, cls, rng, pg, al, con>>

\* the caller goes on after register_system_table returned
RegisterReturn(c) ==
    /\ core[c].pc = "ret"
    /\ core' = [core EXCEPT ![c] = IdleCore]
    /\ UNCHANGED <<EFI_SYSTEM_TABLE, last, boot, fwLog, cls, rng, pg, al, con>>

\* load_system_table(); the caller keeps the reference it got
LoadSystemTable ==
    /\ BootIdle
    /\ LET r == LoadResult(EFI_SYSTEM_TABLE)
       IN  /\ last' = Done("load", r.ref, EFI_SYSTEM_TABLE, r.res, r.ref, 0)
           /\ boot' = [boot EXCEPT !.held = IF r.res = "Ok" THEN r.ref
                                            ELSE boot.held]
    /\ UNCHANGED <<EFI_SYSTEM_TABLE, core, fwLog, cls, rng, pg, al, con>>

\* destroy_system_table()
DestroySystemTable ==
    /\ BootIdle
    /\ EFI_SYSTEM_TABLE' = NULL
    /\ last' = Done("destroy", NULL, EFI_SYSTEM_TABLE, "Ok", NULL, 0)
    /\ UNCHANGED <<core, boot, fwLog, cls, rng, pg, al, con>>

---------------------------------------------------------------------------
(* output_string: the console helper.                                      *)

\* char::encode_utf16
EncodeUtf16Char(cp) ==
    IF cp < 65536 THEN <<cp>>
    ELSE <<55296 + ((cp - 65536) \div 1024), 56320 + ((cp - 65536) % 1024)>>

RECURSIVE EncodeUtf16(_)
EncodeUtf16(str) ==
    IF str = <<>> THEN <<>>
    ELSE EncodeUtf16Char(Head(str)) \o EncodeUtf16(Tail(str))

\* the null-terminated string firmware reads at tmp.as_ptr()
RECURSIVE CStr(_)
CStr(tmp) ==
    IF tmp = <<>> \/ Head(tmp) = 0 THEN <<>>
    ELSE <<Head(tmp)>> \o CStr(Tail(tmp))

\* the body of `for c in string.encode_utf16()` and the final flush, from
\* the state (tmp, in_use) on.  An index >= tmp.len() is a bounds panic.
\* hi is the largest index written so far (-1: none).
RECURSIVE OutputLoop(_, _, _, _, _)
OutputLoop(units, tmp, in_use, chunks, hi) ==
    IF units = <<>>
    THEN IF in_use = 0
         THEN [status |-> "Ok", chunks |-> chunks, hi |-> hi]
         ELSE IF in_use >= TMP_LEN
         THEN [status |-> "panic", chunks |-> chunks, hi |-> in_use]
         ELSE [status |-> "Ok",
               chunks |-> Append(chunks, CStr([tmp EXCEPT ![in_use + 1] = 0])),
               hi |-> IF in_use > hi THEN in_use ELSE hi]
    ELSE LET c == Head(units)
             cr == c = 10
             i1 == IF cr THEN in_use + 1 ELSE in_use
             i2 == i1 + 1
         IN  IF i1 >= TMP_LEN
             THEN [status |-> "panic", chunks |-> chunks, hi |-> i1]
             ELSE LET t1 == IF cr THEN [tmp EXCEPT ![in_use + 1] = 13]
                            ELSE tmp
                      t2 == [t1 EXCEPT ![i1 + 1] = c]
                      h2 == IF i1 > hi THEN i1 ELSE hi
                  IN  IF i2 = TMP_LEN - 2
                      THEN LET t3 == [t2 EXCEPT ![i2 + 1] = 0]
                           IN  OutputLoop(Tail(units), t3, 0,
                                          Append(chunks, CStr(t3)), i2)
                      ELSE OutputLoop(Tail(units), t2, i2, chunks, h2)

\* output_string(string) once the table pointer is known to be non-null
OutputString(str) ==
    OutputLoop(EncodeUtf16(str), [i \in 1..TMP_LEN |-> 0], 0, <<>>, -1)

\* output_string(string) on the boot core
OutputStringOp(str) ==
    /\ BootIdle
    /\ LET st == EFI_SYSTEM_TABLE
           r == OutputString(str)
       IN  IF st = NULL
           THEN /\ last' = Done("output_string", NULL, st, "Ok", NULL, 0)
                /\ boot' = boot
           ELSE /\ last' = Done("output_string", NULL, st, r.status, st,
                                Len(r.chunks))
                /\ boot' = IF r.status = "panic"
                           THEN [boot EXCEPT !.pc = "panicked"]
                           ELSE boot
    /\ UNCHANGED <<EFI_SYSTEM_TABLE, core, fwLog, cls, rng, pg, al, con>>

---------------------------------------------------------------------------
(* Firmware, as the boot core sees it.                                     *)

EFI_INVALID_PARAMETER == <<2, 0, 0, 32768>>   \* 0x8000000000000002
EFI_WARN_UNKNOWN_GLYPH == <<1, 0, 0, 0>>      \* a non-zero warning code

Statuses == {U64Zero, EFI_INVALID_PARAMETER, EFI_WARN_UNKNOWN_GLYPH}

\* the strides firmware reports: the natural record size, or a larger one
Strides == {DESCRIPTOR_BYTES, DESCRIPTOR_BYTES + 8}

\* type codes and page counts of the descriptors of a memory map
DescTypes == {0, 4, 7}
PageCounts == {5, 10}
Descs ==
    [typ : DescTypes, number_of_pages : PageCounts]
        \cup {[typ |-> 0, number_of_pages |-> 2],
              [typ |-> 15, number_of_pages |-> 2]}

MemoryMaps == UNION {[1..k -> Descs] : k \in 0..MaxDescs}

\* {conventional, 10}, {boot-services data, 5}, {reserved, 2}
ExampleMap ==
    <<[typ |-> 7, number_of_pages |-> 10], [typ |-> 4, number_of_pages |-> 5],
      [typ |-> 0, number_of_pages |-> 2]>>

\* what get_memory_map may answer: a failure that writes nothing, or a map
FailedQueries ==
    {[status |-> s, key |-> 0, descs |-> <<>>, stride |-> 0, size |-> 0] :
        s \in Statuses \ {U64Zero}}

FewAnswers ==
    FailedQueries \cup
    {[status |-> U64Zero, key |-> 21, descs |-> ExampleMap,
      stride |-> DESCRIPTOR_BYTES + 8,
      size |-> Len(ExampleMap) * (DESCRIPTOR_BYTES + 8)]}

AllAnswers ==
    FailedQueries \cup
    {[status |-> U64Zero, key |-> k, descs |-> m, stride |-> st,
      size |-> Len(m) * st] : k \in MapKeys, m \in MemoryMaps, st \in Strides}

\* answers whose mmap_size and desc_size are any values that fit the
\* 16 KiB array: desc_size 0, below the record size, not dividing mmap_size
ReportedMaps ==
    {SubSeq(ExampleMap, 1, k) : k \in 0..Len(ExampleMap)}
        \cup [1..1 -> Descs]

OddAnswers ==
    {[status |-> U64Zero, key |-> k, descs |-> m, stride |-> st,
      size |-> 8 * u] :
        k \in MapKeys, m \in ReportedMaps, u \in 0..MaxSizeUnits,
        st \in {0, 8, 24, DESCRIPTOR_BYTES, DESCRIPTOR_BYTES + 8, 100}}
      \cup
    {[status |-> U64Zero, key |-> k, descs |-> m, stride |-> st,
      size |-> MMAP_CAPACITY] :
        k \in MapKeys, m \in ReportedMaps,
        st \in {MMAP_CAPACITY \div 2, MMAP_CAPACITY - 4, MMAP_CAPACITY}}

\* a test of the status's error bit instead of the whole value
HighBitClear(status) == status[4] < 32768

\* ret.0 == 0 / res.0 == 0 / !(status.0 != 0)
IsSuccess(status) == status = U64Zero

---------------------------------------------------------------------------
(* exit_boot_services(handle) of efi.rs, step by step.                     *)

Panic(why, status) ==
    [kind |-> "panic", why |-> why, status |-> status, total |-> U64Zero]

\* EFI_SYSTEM_TABLE.load and the null test; the locals are initialised
EbsCall(h) ==
    /\ BootIdle
    /\ LET st == EFI_SYSTEM_TABLE
       IN  /\ boot' = IF st = NULL
                      THEN [IdleBoot EXCEPT !.pc = "panicked",
                                            !.handle = h,
                                            !.held = boot.held,
                                            !.out = Panic("no_system_table",
                                                          U64Zero)]
                      ELSE [IdleBoot EXCEPT !.pc = "loaded", !.st = st,
                                            !.handle = h,
                                            !.held = boot.held,
                                            !.mmap_size = MMAP_CAPACITY]
           /\ last' = Done("exit_boot_services", h, st,
                           IF st = NULL THEN "panic" ELSE "none", NULL, 0)
    /\ fwLog' = <<>>
    /\ UNCHANGED <<EFI_SYSTEM_TABLE, core, cls, rng, pg, al, con>>

\* ((*(*st).boot_services).get_memory_map)(...) and the assert on ret
EbsGetMemoryMap(answers) ==
    /\ boot.pc = "loaded"
    /\ \E a \in answers :
         /\ fwLog' = Append(fwLog, [fn |-> "get_memory_map", st |-> boot.st,
                                    registry |-> EFI_SYSTEM_TABLE,
                                    handle |-> NULL, key |-> a.key])
         /\ boot' = IF IsSuccess(a.status)
                    THEN [boot EXCEPT !.pc = "queried", !.ret = a.status,
                                      !.mmap = EncodeMap(a.descs, a.stride),
                                      !.mmap_size = a.size,
                                      !.map_key = a.key,
                                      !.desc_size = a.stride,
                                      !.descs = a.descs]
                    ELSE [boot EXCEPT !.pc = "panicked", !.ret = a.status,
                                      !.out = Panic("get_memory_map",
                                                    a.status)]
    /\ UNCHANGED <<EFI_SYSTEM_TABLE, core, last, cls, rng, pg, al, con>>

\* what the walk leaves behind.  A read past the end of the array is
\* undefined behaviour: the build may fault, or go on with whatever bytes
\* lie behind the array, counted or not.
WalkOutcomes(w) ==
    IF w.status = "ok"
    THEN {[pc |-> "walked", free_memory |-> w.free_memory, out |-> NoOut]}
    ELSE IF w.status = "panic"
    THEN {[pc |-> "panicked", free_memory |-> w.free_memory,
           out |-> Panic("walk", U64Zero)]}
    ELSE {[pc |-> "panicked", free_memory |-> w.free_memory,
           out |-> Panic("read_out_of_bounds", U64Zero)],
          [pc |-> "walked", free_memory |-> w.free_memory, out |-> NoOut],
          [pc |-> "walked", free_memory |-> U64Max, out |-> NoOut]}

\* the walk through the buffer
EbsWalk ==
    /\ boot.pc = "queried"
    /\ LET w == Walk(boot.mmap, boot.mmap_size, boot.desc_size)
       IN  \E o \in WalkOutcomes(w) :
               boot' = [boot EXCEPT !.pc = o.pc, !.reads = w.reads,
                                    !.free_memory = o.free_memory,
                                    !.out = o.out]
    /\ UNCHANGED <<EFI_SYSTEM_TABLE, core, last, fwLog, cls, rng, pg, al,
                   con>>

\* an exit call that passes the key as it was before the query
ExitArgsStaleKey(b) == [handle |-> b.handle, key |-> 0]

\* the arguments of the firmware exit call: (handle, map_key)
ExitArgs(b) == [handle |-> b.handle, key |-> b.map_key]

\* ((*(*st).boot_services).exit_boot_services)(handle, map_key)
EbsExitCall ==
    /\ boot.pc = "walked"
    /\ \E s \in Statuses :
         /\ fwLog' = Append(fwLog, [fn |-> "exit_boot_services",
                                    st |-> boot.st,
                                    registry |-> EFI_SYSTEM_TABLE,
                                    handle |-> ExitArgs(boot).handle,
                                    key |-> ExitArgs(boot).key])
         /\ boot' = [boot EXCEPT !.pc = "exited", !.res = s]
    /\ UNCHANGED <<EFI_SYSTEM_TABLE, core, last, cls, rng, pg, al, con>>

\* the assert on res, the store of null, and the return of free_memory
EbsFinish ==
    /\ boot.pc = "exited"
    /\ IF IsSuccess(boot.res)
       THEN /\ EFI_SYSTEM_TABLE' = NULL
            /\ boot' = [boot EXCEPT !.pc = "returned",
                                    !.out = [kind |-> "total",
                                             why |-> "none",
                                             status |-> U64Zero,
                                             total |-> boot.free_memory]]
            /\ last' = Done("exit_boot_services", boot.handle,
                            EFI_SYSTEM_TABLE, "Ok", boot.st, Len(fwLog))
       ELSE /\ boot' = [boot EXCEPT !.pc = "panicked",
                                    !.out = Panic("exit_boot_services",
                                                  boot.res)]
            /\ UNCHANGED <<EFI_SYSTEM_TABLE, last>>
    /\ UNCHANGED <<core, fwLog, cls, rng, pg, al, con>>

\* the caller of exit_boot_services goes on with the total
EbsReturn ==
    /\ boot.pc = "returned"
    /\ boot' = [IdleBoot EXCEPT !.held = boot.held]
    /\ UNCHANGED <<EFI_SYSTEM_TABLE, core, last, fwLog, cls, rng, pg, al, con>>

\* exit_boot_service_int(st, handle, key) of structures.rs, with a
\* reference the caller got from load_system_table
ExitBootServiceInt(h, key) ==
    /\ BootIdle
    /\ boot.held # NULL
    /\ \E s \in Statuses :
         last' = [Done("exit_boot_service_int", h, EFI_SYSTEM_TABLE,
                       IF ~IsSuccess(s) THEN "CouldntExitBootService"
                       ELSE "Ok", boot.held, 1) EXCEPT !.status = s]
    /\ UNCHANGED <<EFI_SYSTEM_TABLE, core, boot, fwLog, cls, rng, pg, al, con>>

---------------------------------------------------------------------------
(* The classifier applied to one descriptor: its raw type code (two limbs  *)
(* of a u32) goes through From<u32>, and the predicate is applied to a     *)
(* category `subject`.                                                     *)

IdleCls ==
    [pc |-> "idle", typ |-> <<0, 0>>, number_of_pages |-> 0,
     subject |-> "Reserved", type |-> "none", available |-> FALSE,
     counted |-> FALSE, bytes |-> 0]

\* r#type = entry.typ.into(); if r#type.available_post_brexit() { += }
ClassifyDescriptor ==
    /\ cls.pc = "input"
    /\ LET type == TypInto(cls.typ)
           counted == type # "panic" /\ AvailablePostExitBootServices(type)
       IN  cls' = [cls EXCEPT !.pc = "classified", !.type = type,
                              !.counted = counted,
                              !.bytes = IF counted
                                        THEN cls.number_of_pages * EFI_PAGE_SIZE
                                        ELSE 0]
    /\ UNCHANGED <<EFI_SYSTEM_TABLE, core, last, boot, fwLog, rng, pg, al, con>>

\* subject.available_post_exit_boot_services()
ClassifyAvailable ==
    /\ cls.pc = "classified"
    /\ cls' = [cls EXCEPT !.pc = "done",
                          !.available =
                              AvailablePostExitBootServices(cls.subject)]
    /\ UNCHANGED <<EFI_SYSTEM_TABLE, core, last, boot, fwLog, rng, pg, al, con>>

---------------------------------------------------------------------------
(* Pages and page ranges.  A page is its start address, a u64.             *)

SIZE_4KIB == U64OfNat(4096)
SIZE_2MIB == U64MulC(SIZE_4KIB, 512).prod
SIZE_1GIB == U64MulC(SIZE_2MIB, 512).prod

PageSizes == {SIZE_4KIB, SIZE_2MIB, SIZE_1GIB}

\* align_down(addr, align); "panic" is the failed assert
AlignDown(addr, align) ==
    IF ~IsPowerOfTwo(align) THEN "panic"
    ELSE U64And(addr, U64Not(U64Dec(align)))

\* Page::containing_address
ContainingAddress(address, size) == AlignDown(address, size)

\* VirtAddr + u64 on the raw 64-bit value: the sum, and whether it left
\* the 64-bit range
VirtAddrAdd(a, b) == U64AddC(a, b)

\* a page increment that moves by one byte per step instead of one page
PageAddBytes(page, rhs, size) ==
    LET s == VirtAddrAdd(page, U64OfNat(rhs))
    IN  [page |-> s.sum, overflow |-> s.carry]

\* impl Add<u64> for Page: containing_address(start_address + rhs * SIZE);
\* overflow tells whether the product or the sum overflowed
PageAdd(page, rhs, size) ==
    LET m == U64MulC(size, rhs)
        s == VirtAddrAdd(page, m.prod)
    IN  [page |-> ContainingAddress(s.sum, size),
         overflow |-> m.carry \/ s.carry]

\* the test of PageRange::next (start < end) and of
\* PageRangeInclusive::next (start <= end)
HasNext(r) ==
    IF r.kind = "range" THEN U64Less(r.start, r.end)
    ELSE U64Leq(r.start, r.end)

\* the pages a range is built from: the first ones of the address space
\* and the last ones
PagesOf(size) ==
    {U64MulC(size, k).prod : k \in 0..MaxPageIdx}
        \cup {U64Neg(U64MulC(size, k).prod) : k \in 1..(MaxPageIdx + 1)}

IdleRng ==
    [pc |-> "idle", kind |-> "range", size |-> SIZE_4KIB, checked |-> FALSE,
     first |-> U64Zero, start |-> U64Zero, end |-> U64Zero,
     yielded |-> <<>>]

\* Page::range(start, end) / Page::range_inclusive(start, end), in a build
\* with (checked) or without overflow checks
NewRanges ==
    UNION {[pc : {"iter"}, kind : {"range", "range_inclusive"},
            size : {size}, checked : BOOLEAN, first : {U64Zero},
            start : PagesOf(size), end : PagesOf(size),
            yielded : {<<>>}] : size \in PageSizes}

\* one call of next() on the range
RangeNext ==
    /\ rng.pc = "iter"
    /\ Len(rng.yielded) < MaxYield
    /\ IF HasNext(rng)
       THEN LET page == rng.start
                inc == PageAdd(rng.start, 1, rng.size)
            IN  rng' = IF inc.overflow /\ rng.checked
                       THEN [rng EXCEPT !.pc = "panic"]
                       ELSE [rng EXCEPT !.start = inc.page,
                                        !.yielded = Append(@, page)]
       ELSE rng' = [rng EXCEPT !.pc = "done"]
    /\ UNCHANGED <<EFI_SYSTEM_TABLE, core, last, boot, fwLog, cls, pg, al, con>>

---------------------------------------------------------------------------
(* Page construction and arithmetic.                                       *)

\* a - b on u64: the difference mod 2^64, and whether it went below zero
U64SubB(a, b) == [diff |-> U64AddC(a, U64Neg(b)).sum, borrow |-> U64Less(a, b)]

\* VirtAddr::is_aligned(align): addr mod align == 0, align a power of two
IsAligned(addr, align) == U64And(addr, U64Dec(align)) = U64Zero

\* VirtAddr - u64 on the raw 64-bit value
VirtAddrSub(a, b) == U64SubB(a, b)

\* a from_start_address without the alignment test
FromStartAddressUnchecked(address, size) ==
    [ok |-> TRUE, page |-> address]

\* Page::from_start_address
FromStartAddress(address, size) ==
    IF ~IsAligned(address, size)
    THEN [ok |-> FALSE, page |-> U64Zero]
    ELSE [ok |-> TRUE, page |-> ContainingAddress(address, size)]

\* impl Sub<u64> for Page: containing_address(start_address - rhs * SIZE)
PageSub(page, rhs, size) ==
    LET m == U64MulC(size, rhs)
        d == VirtAddrSub(page, m.prod)
    IN  [page |-> ContainingAddress(d.diff, size),
         overflow |-> m.carry \/ d.borrow]

\* PageRange<Size2MiB>::as_4kib_page_range, one bound of the range
As4KibPage(page) == ContainingAddress(page, SIZE_4KIB)

\* the addresses given to the constructors of pages of one size: page
\* starts at either end of the address space, and addresses 1 and 4096
\* bytes above
AddrsOf(size) ==
    {U64AddC(p, U64OfNat(d)).sum : p \in PagesOf(size),
                                   d \in {0, 1, EFI_PAGE_SIZE}}

Addrs == UNION {AddrsOf(size) : size \in PageSizes}

\* the page counts given to +, -, += and -=
Counts == 0..MaxCount

IdlePg ==
    [pc |-> "idle", size |-> SIZE_4KIB, checked |-> FALSE, has |-> FALSE,
     page |-> U64Zero, prev |-> U64Zero, op |-> "none", arg |-> U64Zero,
     n |-> 0, ok |-> TRUE, overflow |-> FALSE, ops |-> 0]

\* Page::<S>::containing_address(a)
PgContainingAddress(a) ==
    /\ pg.pc = "ready"
    /\ pg.ops < MaxOps
    /\ pg' = [pg EXCEPT !.has = TRUE, !.prev = pg.page,
                        !.page = ContainingAddress(a, pg.size),
                        !.op = "containing_address", !.arg = a, !.n = 0,
                        !.ok = TRUE, !.overflow = FALSE, !.ops = @ + 1]
    /\ UNCHANGED <<EFI_SYSTEM_TABLE, core, last, boot, fwLog, cls, rng, al,
                   con>>

\* Page::<S>::from_start_address(a); an Err leaves the caller without a
\* new page
PgFromStartAddress(a) ==
    /\ pg.pc = "ready"
    /\ pg.ops < MaxOps
    /\ LET r == FromStartAddress(a, pg.size)
       IN  pg' = [pg EXCEPT !.has = IF r.ok THEN TRUE ELSE @,
                            !.prev = pg.page,
                            !.page = IF r.ok THEN r.page ELSE @,
                            !.op = "from_start_address", !.arg = a,
                            !.n = 0, !.ok = r.ok, !.overflow = FALSE,
                            !.ops = @ + 1]
    /\ UNCHANGED <<EFI_SYSTEM_TABLE, core, last, boot, fwLog, cls, rng, al,
                   con>>

\* page + n, page += n, page - n, page -= n: AddAssign and SubAssign are
\* `*self = self.clone() + rhs` and `*self = self.clone() - rhs`
PgArith(op, n) ==
    /\ pg.pc = "ready"
    /\ pg.has
    /\ pg.ops < MaxOps
    /\ LET r == IF op \in {"add", "add_assign"}
                THEN PageAdd(pg.page, n, pg.size)
                ELSE PageSub(pg.page, n, pg.size)
       IN  pg' = IF r.overflow /\ pg.checked
                 THEN [pg EXCEPT !.pc = "panic", !.op = op, !.n = n,
                                 !.arg = U64Zero, !.overflow = TRUE]
                 ELSE [pg EXCEPT !.prev = pg.page, !.page = r.page,
                                 !.op = op, !.n = n, !.arg = U64Zero,
                                 !.ok = TRUE, !.overflow = r.overflow,
                                 !.ops = @ + 1]
    /\ UNCHANGED <<EFI_SYSTEM_TABLE, core, last, boot, fwLog, cls, rng, al,
                   con>>

\* as_4kib_page_range on a range of 2 MiB pages: the page becomes the
\* 4 KiB page at the same address
PgAs4Kib ==
    /\ pg.pc = "ready"
    /\ pg.has
    /\ pg.size = SIZE_2MIB
    /\ pg.ops < MaxOps
    /\ pg' = [pg EXCEPT !.size = SIZE_4KIB, !.prev = pg.page,
                        !.page = As4KibPage(pg.page),
                        !.op = "as_4kib_page_range", !.arg = U64Zero,
                        !.n = 0, !.ok = TRUE, !.overflow = FALSE,
                        !.ops = @ + 1]
    /\ UNCHANGED <<EFI_SYSTEM_TABLE, core, last, boot, fwLog, cls, rng, al,
                   con>>

---------------------------------------------------------------------------
(* align_up and align_down of memory/utils.                                *)

\* u64 | u64
U64Or(a, b) == [i \in 1..4 |-> a[i] + b[i] - BitAnd(a[i], b[i])]

\* an align_up that rounds without testing whether addr is aligned already
AlignUpNoTest(addr, align) ==
    IF ~IsPowerOfTwo(align)
    THEN [status |-> "panic", val |-> U64Zero, overflow |-> FALSE]
    ELSE LET s == U64AddC(U64Or(addr, U64Dec(align)), <<1, 0, 0, 0>>)
         IN  [status |-> "Ok", val |-> s.sum, overflow |-> s.carry]

\* align_up(addr, align): status "panic" is the failed assert; overflow
\* tells whether (addr | align_mask) + 1 left the 64-bit range
AlignUp(addr, align) ==
    IF ~IsPowerOfTwo(align)
    THEN [status |-> "panic", val |-> U64Zero, overflow |-> FALSE]
    ELSE LET align_mask == U64Dec(align)
         IN  IF U64And(addr, align_mask) = U64Zero
             THEN [status |-> "Ok", val |-> addr, overflow |-> FALSE]
             ELSE LET s == U64AddC(U64Or(addr, align_mask), <<1, 0, 0, 0>>)
                  IN  [status |-> "Ok", val |-> s.sum, overflow |-> s.carry]

\* the alignments given to the two functions: powers of two from 1 to
\* 2^63, and values that are not powers of two
Aligns ==
    {<<1, 0, 0, 0>>, <<2, 0, 0, 0>>, SIZE_4KIB, SIZE_2MIB, SIZE_1GIB,
     <<0, 0, 0, 32768>>}
        \cup {U64Zero, <<3, 0, 0, 0>>, <<4097, 0, 0, 0>>, <<0, 3, 0, 0>>,
              U64Max}

\* the addresses given to the two functions
AlignAddrs == Addrs \cup {U64Max, <<0, 0, 0, 32768>>, <<1, 0, 0, 32768>>}

IdleAl ==
    [pc |-> "idle", fn |-> "none", addr |-> U64Zero, align |-> <<1, 0, 0, 0>>,
     checked |-> FALSE, status |-> "none", val |-> U64Zero,
     overflow |-> FALSE]

\* align_up(al.addr, al.align)
AlignUpOp ==
    /\ al.pc = "input"
    /\ LET r == AlignUp(al.addr, al.align)
       IN  al' = [al EXCEPT !.pc = "done", !.fn = "align_up",
                            !.status = IF r.overflow /\ al.checked
                                       THEN "panic" ELSE r.status,
                            !.val = r.val, !.overflow = r.overflow]
    /\ UNCHANGED <<EFI_SYSTEM_TABLE, core, last, boot, fwLog, cls, rng, pg,
                   con>>

\* align_down(al.addr, al.align)
AlignDownOp ==
    /\ al.pc = "input"
    /\ LET r == AlignDown(al.addr, al.align)
       IN  al' = IF ~IsPowerOfTwo(al.align)
                 THEN [al EXCEPT !.pc = "done", !.fn = "align_down",
                                 !.status = "panic"]
                 ELSE [al EXCEPT !.pc = "done", !.fn = "align_down",
                                 !.status = "Ok", !.val = r]
    /\ UNCHANGED <<EFI_SYSTEM_TABLE, core, last, boot, fwLog, cls, rng, pg,
                   con>>

---------------------------------------------------------------------------
(* output_string on the strings of a console session.                      *)

\* a string of n characters: letters, a line-feed at the positions of lfs
\* and a character outside the basic plane at position wide (0: none)
StringOf(n, lfs, wide) ==
    [i \in 1..n |-> IF i \in lfs THEN 10
                    ELSE IF i = wide THEN 128512
                    ELSE 97 + (i % 26)]

\* strings of up to MaxStrLen characters with at most two line-feeds
ConsoleStrings ==
    {StringOf(n, {p, q}, 0) : n \in 0..MaxStrLen, p \in 0..MaxStrLen,
                              q \in 0..MaxStrLen}
        \cup {StringOf(n, {p}, 1) : n \in 1..MaxStrLen, p \in 0..MaxStrLen}

IdleCon ==
    [pc |-> "idle", str |-> <<>>, status |-> "none", chunks |-> <<>>,
     hi |-> -1]

\* output_string(con.str) with a table registered
ConOutputString ==
    /\ con.pc = "input"
    /\ LET r == OutputString(con.str)
       IN  con' = [con EXCEPT !.pc = "done", !.status = r.status,
                              !.chunks = r.chunks, !.hi = r.hi]
    /\ UNCHANGED <<EFI_SYSTEM_TABLE, core, last, boot, fwLog, cls, rng, pg,
                   al>>

---------------------------------------------------------------------------
(* Specifications.                                                         *)

Strings == {<<>>, <<97>>, <<97, 10, 98>>}

Apis == {"structures", "efi"}

Init ==
    /\ EFI_SYSTEM_TABLE = NULL
    /\ core = [c \in Cores |-> IdleCore]
    /\ last = NoOp
    /\ boot = IdleBoot
    /\ fwLog = <<>>
    /\ cls = IdleCls
    /\ rng = IdleRng
    /\ pg = IdlePg
    /\ al = IdleAl
    /\ con = IdleCon

\* the registry through its whole life on the boot core: registration,
\* loads, console output, destruction and boot exit, one after the other
Next ==
    \/ \E c \in BootCores, api \in Apis, p \in Ptrs :
            BootIdle /\ RegisterCall(c, api, p)
    \/ \E c \in BootCores : RegisterCas(c)
    \/ \E c \in BootCores : RegisterReturn(c)
    \/ LoadSystemTable
    \/ DestroySystemTable
    \/ \E str \in Strings : OutputStringOp(str)
    \/ \E h \in Handles : EbsCall(h)
    \/ EbsGetMemoryMap(FewAnswers)
    \/ EbsWalk
    \/ EbsExitCall
    \/ EbsFinish
    \/ EbsReturn
    \/ \E h \in Handles, k \in MapKeys : ExitBootServiceInt(h, k)

Spec == Init /\ [][Next]_vars

\* several cores race to register on the empty registry
NextRace ==
    \/ \E c \in Cores, api \in Apis, p \in Ptrs : RegisterCall(c, api, p)
    \/ \E c \in Cores : RegisterCas(c)

SpecRace == Init /\ [][NextRace]_vars

\* one run of exit_boot_services, on an empty or a registered registry,
\* against every firmware answer
InitBoot ==
    /\ EFI_SYSTEM_TABLE \in {NULL} \cup Ptrs
    /\ core = [c \in Cores |-> IdleCore]
    /\ last = NoOp
    /\ boot = IdleBoot
    /\ fwLog = <<>>
    /\ cls = IdleCls
    /\ rng = IdleRng
    /\ pg = IdlePg
    /\ al = IdleAl
    /\ con = IdleCon

NextBoot ==
    \/ \E h \in Handles : EbsCall(h)
    \/ EbsGetMemoryMap(AllAnswers)
    \/ EbsWalk
    \/ EbsExitCall
    \/ EbsFinish

SpecBoot == InitBoot /\ [][NextBoot]_vars

\* one run of exit_boot_services against firmware that reports any
\* mmap_size and desc_size
NextWalk ==
    \/ \E h \in Handles : EbsCall(h)
    \/ EbsGetMemoryMap(OddAnswers)
    \/ EbsWalk
    \/ EbsExitCall
    \/ EbsFinish

SpecWalk == InitBoot /\ [][NextWalk]_vars

\* the classifier on every raw type code and every category
InitClassify ==
    /\ EFI_SYSTEM_TABLE = NULL
    /\ core = [c \in Cores |-> IdleCore]
    /\ last = NoOp
    /\ boot = IdleBoot
    /\ fwLog = <<>>
    /\ cls \in [pc : {"input"}, typ : (0..MaxTypeCode) \X {0, 1},
                number_of_pages : 0..MaxPages, subject : EfiMemoryType,
                type : {"none"}, available : {FALSE}, counted : {FALSE},
                bytes : {0}]
    /\ rng = IdleRng
    /\ pg = IdlePg
    /\ al = IdleAl
    /\ con = IdleCon

NextClassify == ClassifyDescriptor \/ ClassifyAvailable

SpecClassify == InitClassify /\ [][NextClassify]_vars

\* the iteration of every small range at either end of the address space
InitPage ==
    /\ EFI_SYSTEM_TABLE = NULL
    /\ core = [c \in Cores |-> IdleCore]
    /\ last = NoOp
    /\ boot = IdleBoot
    /\ fwLog = <<>>
    /\ cls = IdleCls
    /\ rng \in {[r EXCEPT !.first = r.start] : r \in NewRanges}
    /\ pg = IdlePg
    /\ al = IdleAl
    /\ con = IdleCon

NextPage == RangeNext

SpecPage == InitPage /\ [][NextPage]_vars

\* Page values built and moved by the public operations, for every page
\* size, in a build with and without overflow checks
InitPageOps ==
    /\ EFI_SYSTEM_TABLE = NULL
    /\ core = [c \in Cores |-> IdleCore]
    /\ last = NoOp
    /\ boot = IdleBoot
    /\ fwLog = <<>>
    /\ cls = IdleCls
    /\ rng = IdleRng
    /\ pg \in {[IdlePg EXCEPT !.pc = "ready", !.size = size, !.checked = ch] :
                 size \in PageSizes, ch \in BOOLEAN}
    /\ al = IdleAl
    /\ con = IdleCon

NextPageOps ==
    \/ \E a \in AddrsOf(pg.size) : PgContainingAddress(a)
    \/ \E a \in AddrsOf(pg.size) : PgFromStartAddress(a)
    \/ \E op \in {"add", "add_assign", "sub", "sub_assign"}, n \in Counts :
            PgArith(op, n)
    \/ PgAs4Kib

SpecPageOps == InitPageOps /\ [][NextPageOps]_vars

\* align_up and align_down on every address and alignment of the model
InitAlign ==
    /\ EFI_SYSTEM_TABLE = NULL
    /\ core = [c \in Cores |-> IdleCore]
    /\ last = NoOp
    /\ boot = IdleBoot
    /\ fwLog = <<>>
    /\ cls = IdleCls
    /\ rng = IdleRng
    /\ pg = IdlePg
    /\ al \in {[IdleAl EXCEPT !.pc = "input", !.addr = a, !.align = g,
                              !.checked = ch] :
                 a \in AlignAddrs, g \in Aligns, ch \in BOOLEAN}
    /\ con = IdleCon

NextAlign == AlignUpOp \/ AlignDownOp

SpecAlign == InitAlign /\ [][NextAlign]_vars

\* output_string on every string of the model, a table being registered
InitConsole ==
    /\ EFI_SYSTEM_TABLE \in Ptrs
    /\ core = [c \in Cores |-> IdleCore]
    /\ last = NoOp
    /\ boot = IdleBoot
    /\ fwLog = <<>>
    /\ cls = IdleCls
    /\ rng = IdleRng
    /\ pg = IdlePg
    /\ al = IdleAl
    /\ con \in {[IdleCon EXCEPT !.pc = "input", !.str = str] :
                  str \in ConsoleStrings}

NextConsole == ConOutputString

SpecConsole == InitConsole /\ [][NextConsole]_vars

---------------------------------------------------------------------------
(* Properties of the registry.                                             *)

C2_EmptyRegistryIsNeverDereferenced ==
    /\ last.op = "load" =>
          /\ last.before = NULL => last.res = "CouldntAccessSystemTable"
          /\ last.res = "Ok" => /\ last.arg = EFI_SYSTEM_TABLE
                                /\ last.arg # NULL
    /\ (/\ last.op \in {"load", "exit_boot_services", "output_string"}
        /\ last.before = NULL)
          => last.deref = NULL /\ last.calls = 0
    /\ last.op \in {"load", "exit_boot_services", "output_string"}
          => last.deref \in {NULL, last.before}
    /\ \A i \in 1..Len(fwLog) :
          fwLog[i].st # NULL /\ fwLog[i].st = fwLog[i].registry

\* a load right after destroy failed
C2_Witness ==
    /\ last.op = "load"
    /\ last.prev = "destroy"
    /\ last.res = "CouldntAccessSystemTable"
    /\ EFI_SYSTEM_TABLE = NULL

\* C3: of the register calls racing on the empty registry exactly one
\* succeeds; the others fail; the registry holds the winner's pointer.
C3_ExactlyOneWinner ==
    LET finished == {c \in Cores : core[c].pc \in {"ret", "panic"}}
        winners == {c \in finished : core[c].res = "Ok"}
    IN  /\ Cardinality(winners) <= 1
        /\ finished # {} => Cardinality(winners) = 1
        /\ \A c \in winners : EFI_SYSTEM_TABLE = core[c].arg
        /\ \A c \in finished \ winners :
              core[c].res \in {"CouldntRegisterSystemTable", "panic"}
        /\ winners = {} => EFI_SYSTEM_TABLE = NULL

\* every core has finished its call, and they did not all pass the same
\* pointer
C3_Witness ==
    /\ \A c \in Cores : core[c].pc \in {"ret", "panic"}
    /\ \E c, d \in Cores : core[c].arg # core[d].arg
    /\ \E c \in Cores : core[c].res = "CouldntRegisterSystemTable"

---------------------------------------------------------------------------
(* Properties of the boot-exit protocol.                                   *)

Queries == {i \in 1..Len(fwLog) : fwLog[i].fn = "get_memory_map"}
Exits == {i \in 1..Len(fwLog) : fwLog[i].fn = "exit_boot_services"}
Ended == boot.pc \in {"returned", "panicked"}

\* what C4 says of the firmware calls other than their number in a run
\* that has ended: at most one query, at most one exit call, the exit call
\* directly after the query, with the key that query wrote and the
\* caller's handle
CallOrder ==
    /\ Cardinality(Queries) <= 1
    /\ Cardinality(Exits) <= 1
    /\ \A i \in Exits :
          /\ i = 2
          /\ fwLog[1].fn = "get_memory_map"
          /\ fwLog[i].key = fwLog[1].key
          /\ fwLog[i].key \in MapKeys
          /\ fwLog[i].handle = last.arg

\* C4 as stated: every run invokes get_memory_map exactly once.
C4_Original ==
    /\ Ended => Cardinality(Queries) = 1
    /\ CallOrder

\* C4, amended: a run that finds a table registered invokes get_memory_map
\* exactly once, a run on the empty registry invokes no firmware function;
\* the exit call is invoked at most once, directly after the query, with
\* the key that query wrote and the caller's handle.
C4_QueryOnceThenExit ==
    /\ (Ended /\ boot.st # NULL) => Cardinality(Queries) = 1
    /\ boot.st = NULL => fwLog = <<>>
    /\ CallOrder

\* a run made the exit call with the second key and the second handle
C4_Witness ==
    /\ boot.pc = "returned"
    /\ Len(fwLog) = 2
    /\ fwLog[2].key = 22
    /\ fwLog[2].handle = 12

\* C5: the registry is cleared only by a run whose exit call returned 0,
\* which then returns the total; until then, and in every run whose query
\* or exit call returned a non-zero status, the registry keeps the pointer,
\* no total is returned and no firmware function is invoked a second time.
C5_ClearedOnlyOnSuccess ==
    /\ (boot.out.kind = "total") <=> (boot.pc = "returned")
    /\ boot.pc = "returned" =>
          /\ EFI_SYSTEM_TABLE = NULL
          /\ boot.ret = U64Zero /\ boot.res = U64Zero
          /\ Exits = {2}
          /\ boot.out.total = boot.free_memory
    /\ (boot.st # NULL /\ boot.pc # "returned") =>
          EFI_SYSTEM_TABLE = boot.st
    /\ (boot.pc = "panicked" /\ (boot.ret # U64Zero \/ boot.res # U64Zero))
          => /\ EFI_SYSTEM_TABLE = boot.st
             /\ EFI_SYSTEM_TABLE # NULL
             /\ boot.out.kind = "panic"
             /\ boot.out.status \in {boot.ret, boot.res} \ {U64Zero}
             /\ Cardinality(Queries) = 1
             /\ Cardinality(Exits) <= 1

\* a run returned a non-zero total and left the registry empty
C5_Witness ==
    /\ boot.pc = "returned"
    /\ boot.st # NULL
    /\ EFI_SYSTEM_TABLE = NULL
    /\ boot.out.total # U64Zero

\* C6 as stated: a non-zero status of get_memory_map is reported as the
\* typed error CouldntGetMemoryMap(s) and the exit call is not made; a
\* non-zero status of the exit call is reported as CouldntExitBootService(s).
C6_TypedErrors ==
    /\ (boot.pc = "panicked" /\ boot.ret # U64Zero) =>
          /\ boot.out.kind = "err"
          /\ boot.out.why = "CouldntGetMemoryMap"
          /\ boot.out.status = boot.ret
          /\ Exits = {}
    /\ (boot.pc = "panicked" /\ boot.res # U64Zero) =>
          /\ boot.out.kind = "err"
          /\ boot.out.why = "CouldntExitBootService"
          /\ boot.out.status = boot.res

\* the total the firmware's descriptors call for
AvailableCodes ==
    {Discriminant(t) : t \in {"BootServicesCode", "BootServicesData",
                              "Conventional", "PersistentMemory"}}

RECURSIVE ExpectedFree(_)
ExpectedFree(descs) ==
    IF descs = <<>> THEN 0
    ELSE (IF Head(descs).typ \in AvailableCodes
          THEN Head(descs).number_of_pages * EFI_PAGE_SIZE ELSE 0)
         + ExpectedFree(Tail(descs))

\* C7: the walk reads one record at every multiple of the reported stride
\* below mmap_size, and the total is the sum of number_of_pages * 4096 over
\* the records whose category is available after exit; the walk faults
\* only on a record whose type code is not one of the fifteen.
C7_TotalIsSumOfAvailable ==
    /\ boot.pc \in {"walked", "exited", "returned"} =>
          /\ boot.free_memory = U64OfNat(ExpectedFree(boot.descs))
          /\ boot.reads = [k \in 1..Len(boot.descs) |->
                              (k - 1) * boot.desc_size]
          /\ \A k \in 1..Len(boot.reads) : boot.reads[k] < boot.mmap_size
    /\ boot.pc = "returned" =>
          boot.out.total = U64OfNat(ExpectedFree(boot.descs))
    /\ (boot.pc = "panicked" /\ boot.out.why \in {"walk", "read_out_of_bounds"})
          => \E k \in 1..Len(boot.descs) :
                boot.descs[k].typ >= NUM_MEMORY_TYPES

\* the example map, at a stride larger than the record, gave 61440
C7_Witness ==
    /\ boot.pc = "returned"
    /\ boot.descs = ExampleMap
    /\ boot.desc_size = DESCRIPTOR_BYTES + 8
    /\ boot.out.total = U64OfNat(61440)

---------------------------------------------------------------------------
(* Properties of the classifier.                                           *)

\* C8: the predicate is true of boot-services code, boot-services data,
\* conventional and persistent memory and false of the other eleven.
C8_AvailableExactlyFour ==
    cls.pc = "done" =>
        /\ cls.available <=>
              cls.subject \in {"BootServicesCode", "BootServicesData",
                               "Conventional", "PersistentMemory"}
        /\ cls.available <=> Discriminant(cls.subject) \in {3, 4, 7, 14}

\* the predicate was applied to persistent memory and to a category that
\* maps to it
C8_Witness ==
    /\ cls.pc = "done"
    /\ cls.subject = "PersistentMemory"
    /\ cls.available
    /\ cls.type = "PersistentMemory"
    /\ cls.counted

\* C9 as stated: each code 0..14 maps to the category the enum declares
\* for it, and every other code is a fault.
C9_CodesMapToTheirCategories ==
    cls.pc \in {"classified", "done"} =>
        IF cls.typ[2] = 0 /\ cls.typ[1] < NUM_MEMORY_TYPES
        THEN /\ cls.type \in EfiMemoryType
             /\ Discriminant(cls.type) = cls.typ[1]
        ELSE cls.type = "panic"

---------------------------------------------------------------------------
(* Properties of the page ranges.                                          *)

\* first + n * SIZE as a 64-bit address, and whether it exists
NthPage(r, n) ==
    LET m == U64MulC(r.size, n)
        s == U64AddC(r.first, m.prod)
    IN  [page |-> s.sum, exists |-> ~m.carry /\ ~s.carry]

InRange(r, page) ==
    IF r.kind = "range" THEN U64Less(page, r.end) ELSE U64Leq(page, r.end)

\* C10 as stated: the iteration never faults, the i-th page yielded is
\* start + (i-1) pages and lies within the bound, and the iteration ends
\* exactly when the next page would lie outside it.
C10_RangeYieldsExactlyItsPages ==
    rng.pc # "idle" =>
        /\ rng.pc # "panic"
        /\ \A i \in 1..Len(rng.yielded) :
              /\ NthPage(rng, i - 1).exists
              /\ rng.yielded[i] = NthPage(rng, i - 1).page
              /\ InRange(rng, rng.yielded[i])
        /\ rng.pc = "done" =>
              LET n == NthPage(rng, Len(rng.yielded))
              IN  ~n.exists \/ ~InRange(rng, n.page)

---------------------------------------------------------------------------
(* Properties of Page construction and arithmetic.                         *)

\* a mod n = 0 for a power of two n, limb by limb: the limbs of a below
\* n's one bit are zero and the limb that holds the bit is a multiple of it
Multiple(a, n) ==
    \E j \in 1..4 :
        /\ n[j] # 0
        /\ \A i \in 1..(j - 1) : a[i] = 0
        /\ a[j] % n[j] = 0

\* C11: from_start_address(a) succeeds iff a mod S::SIZE = 0; on success
\* the page starts at a; otherwise it fails (AddressNotAligned, the only
\* error there is) and gives no page.
C11_FromStartAddressIffAligned ==
    pg.op = "from_start_address" =>
        /\ pg.ok <=> Multiple(pg.arg, pg.size)
        /\ pg.ok => pg.has /\ pg.page = pg.arg
        /\ ~pg.ok => pg.page = pg.prev

\* 0x1000 was accepted as the start of a 4 KiB page
C11_Witness ==
    /\ pg.op = "from_start_address"
    /\ pg.size = SIZE_4KIB
    /\ pg.arg = U64OfNat(4096)
    /\ pg.ok
    /\ pg.page = U64OfNat(4096)

\* C12: every Page the operations produce starts at a multiple of its
\* size, and page + n / page - n (and += / -=) move the start by n * SIZE
\* bytes: exactly when the sum or difference stays within 64 bits, and
\* modulo 2^64 when a build without overflow checks wraps.
C12_PagesAlignedAndMoveByPages ==
    /\ pg.has => Multiple(pg.page, pg.size)
    /\ (pg.pc = "ready" /\ pg.op \in {"add", "add_assign"}) =>
          /\ U64SubB(pg.page, pg.prev).diff = U64MulC(pg.size, pg.n).prod
          /\ ~pg.overflow => U64Leq(pg.prev, pg.page)
    /\ (pg.pc = "ready" /\ pg.op \in {"sub", "sub_assign"}) =>
          /\ U64SubB(pg.prev, pg.page).diff = U64MulC(pg.size, pg.n).prod
          /\ ~pg.overflow => U64Leq(pg.page, pg.prev)
    /\ pg.pc = "panic" => pg.checked /\ pg.overflow

\* a 1 GiB page was moved up by two pages, from 0 to 0x8000_0000
C12_Witness ==
    /\ pg.pc = "ready"
    /\ pg.op = "add_assign"
    /\ pg.size = SIZE_1GIB
    /\ pg.n = 2
    /\ pg.prev = U64Zero
    /\ pg.page = <<0, 32768, 0, 0>>

---------------------------------------------------------------------------
(* Properties of align_up and align_down.                                  *)

\* n is 2^k for some k in 0..63: one limb holds one bit, the others none
PowerOfTwo(n) ==
    \E j \in 1..4 :
        /\ n[j] \in {2^k : k \in 0..15}
        /\ \A i \in (1..4) \ {j} : n[i] = 0

\* C13: for a power-of-two align, align_down gives the largest multiple of
\* align not above addr; align_up gives the smallest multiple not below
\* addr when that multiple fits in 64 bits, and overflows only when it
\* does not; an align that is no power of two fails the assert in both.
C13_AlignBounds ==
    al.pc = "done" =>
        /\ ~PowerOfTwo(al.align) => al.status = "panic"
        /\ (PowerOfTwo(al.align) /\ al.fn = "align_down") =>
              /\ al.status = "Ok"
              /\ Multiple(al.val, al.align)
              /\ U64Leq(al.val, al.addr)
              /\ U64Less(U64SubB(al.addr, al.val).diff, al.align)
        /\ (PowerOfTwo(al.align) /\ al.fn = "align_up" /\ ~al.overflow) =>
              /\ al.status = "Ok"
              /\ Multiple(al.val, al.align)
              /\ U64Leq(al.addr, al.val)
              /\ U64Less(U64SubB(al.val, al.addr).diff, al.align)
        /\ al.overflow =>
              /\ al.fn = "align_up"
              /\ PowerOfTwo(al.align)
              /\ U64Less(U64SubB(U64Max, al.addr).diff, U64Dec(al.align))
              /\ al.status = IF al.checked THEN "panic" ELSE "Ok"

\* align_up(0x1001, 0x1000) gave 0x2000
C13_Witness ==
    /\ al.pc = "done"
    /\ al.fn = "align_up"
    /\ al.addr = U64OfNat(4097)
    /\ al.align = SIZE_4KIB
    /\ al.status = "Ok"
    /\ al.val = U64OfNat(8192)

---------------------------------------------------------------------------
(* Properties of the console helper.                                       *)

\* the code units with every line-feed replaced by carriage return,
\* line-feed
RECURSIVE CrLf(_)
CrLf(units) ==
    IF units = <<>> THEN <<>>
    ELSE (IF Head(units) = 10 THEN <<13, 10>> ELSE <<Head(units)>>)
            \o CrLf(Tail(units))

RECURSIVE Concat(_)
Concat(chunks) ==
    IF chunks = <<>> THEN <<>> ELSE Head(chunks) \o Concat(Tail(chunks))

\* C14 as stated: for every string the call completes, no index written is
\* 32 or more, every chunk firmware reads ends at a null inside the buffer,
\* and the chunks together are the string with CR LF for every LF.
C14_OutputStringFitsItsBuffer ==
    con.pc = "done" =>
        /\ con.status = "Ok"
        /\ con.hi < TMP_LEN
        /\ \A k \in 1..Len(con.chunks) : Len(con.chunks[k]) < TMP_LEN
        /\ Concat(con.chunks) = CrLf(EncodeUtf16(con.str))

---------------------------------------------------------------------------
(* Properties of the descriptor walk on any reported sizes.                *)

\* the walk has run
Walked ==
    IF boot.pc = "panicked"
    THEN boot.out.why \in {"walk", "read_out_of_bounds", "exit_boot_services"}
    ELSE boot.pc \in {"walked", "exited", "returned"}

\* C15 as stated: whatever mmap_size <= 16384 and desc_size the query
\* reported, every 40-byte record the walk read lies within the first
\* mmap_size bytes, and no read leaves the array.
C15_WalkStaysInsideTheMap ==
    Walked =>
        /\ \A k \in 1..Len(boot.reads) :
              boot.reads[k] + DESCRIPTOR_BYTES <= boot.mmap_size
        /\ boot.out.why # "read_out_of_bounds"

=============================================================================
